---- MODULE Spec2Model ----
(***************************************************************************)
(* A model of AgenticRAG.query (src/src/agentic_rag.py) together with the  *)
(* VectorStore.search it retrieves from (src/src/vector_store.py).  One    *)
(* behaviour is one call of query(); the steps are cut at the calls query  *)
(* makes to its collaborators (the planning, synthesis and reflection      *)
(* calls of the language model, and the searches of the vector store).     *)
(* PairSpec runs two calls of query() on one instance, interleaved at the  *)
(* same cuts, one of them verbose.                                         *)
(***************************************************************************)
EXTENDS Integers, Sequences, FiniteSets, TLC

(* ------------------------------ bounds --------------------------------- *)

\* largest fan-out k passed to query()
MaxK == 2
\* largest max_iterations given to the constructor
MaxIter == 3
\* longest sub_queries list the planning call answers with
MaxSub == 3
\* most chunks add_documents is let grow the store to: the two batches, or
\* one batch added twice
MaxChunks == 6

(* ------------------------------ helpers -------------------------------- *)

Min(a, b) == IF a < b THEN a ELSE b

\* xs[:n] of Python, for n >= 0
Take(xs, n) == SubSeq(xs, 1, Min(n, Len(xs)))

\* d.get(key, default) of a Python dict, a dict being a function on its keys
Get(d, key, default) == IF key \in DOMAIN d THEN d[key] ELSE default

\* Python's None: a name or key not set, or a completion without content
None == "None"

\* what json.loads gives for a text that is valid JSON and not an object (a
\* list, a string, a number, null): a value without a get method.  Dicts
\* being functions on their keys, it is kept as a function that no object of
\* the model equals.
NotADict == "<not an object>" :> None

IsDict(d) == d # NotADict

\* a value of a key that cannot be iterated (null, a number), kept as a tuple
\* that no list of queries of the model equals
NotAList == <<None>>

IsList(v) == v # NotAList

\* a dict with no key
EmptyDict == <<>>

(* ---------------------------- the document index ----------------------- *)

Doc(t, s) == [text |-> t, source |-> s]

\* the texts a chunk can have
TextNames == <<"t1", "t2", "t3", "t4", "t5">>

\* a first batch of chunks, which repeats a text under another source
CorpusDup == <<Doc("t1", "a.txt"), Doc("t2", "a.txt"), Doc("t2", "b.txt")>>

\* a second batch of chunks
CorpusMore == <<Doc("t3", "b.txt"), Doc("t4", "b.txt"), Doc("t5", "c.txt")>>

\* the index after both batches: more distinct texts than 2k for every k the
\* model uses
CorpusWide == CorpusDup \o CorpusMore

\* the indexes query() is run against: none built, and the two above
Corpora == {<<>>, CorpusDup, CorpusWide}

\* the lists add_documents is called with while a query runs
Batches == {CorpusMore}

\* lines 41-45 of add_documents: the first call stores a copy of the list,
\* a later call extends the stored list
AddedDocuments(docs, batch) == docs \o batch

\* line 70, index.search: the chunks by distance from the query.  Chunks of
\* one text have one vector and so one distance, and come in stored order.
\* The orders of the texts the model takes are the rotations of TextNames:
\* the text the query is nearest to first, then the texts after it, then
\* those before it (a sample of the orders an embedding can give).
Place(t) == CHOOSE i \in 1..Len(TextNames) : TextNames[i] = t

Distance(t, nearest) ==
    (Place(t) + Len(TextNames) - Place(nearest)) % Len(TextNames)

Nearer(docs, nearest, i, j) ==
    \/ Distance(docs[i].text, nearest) < Distance(docs[j].text, nearest)
    \/ /\ docs[i].text = docs[j].text
       /\ i < j

Ranking(docs, nearest) ==
    [p \in 1..Len(docs) |->
        CHOOSE j \in 1..Len(docs) :
            Cardinality({i \in 1..Len(docs) : Nearer(docs, nearest, i, j)}) = p - 1]

\* VectorStore.search: nothing from an index that is not made or holds no
\* vector (lines 61-62), else the min(k, ntotal) nearest of the n vectors of
\* the index, nearest first, each as the stored chunk of its position
SearchResults(docs, n, nearest, kk) ==
    IF n = 0
    THEN <<>>
    ELSE LET m == Min(kk, n)
             r == Ranking(Take(docs, n), nearest)
         IN  [i \in 1..m |-> docs[r[i]]]

(* ------------------------- the language model -------------------------- *)

\* the user's question
Query == "q"

\* the sub-query lists of a plan: <<>>, <<"s1">>, <<"s1", "s2">>, ..., and
\* the list that gives the question back as its only sub-query
SubQueryNames == <<"s1", "s2", "s3", "s4", "s5", "s6">>
SubQueryLists ==
    {[i \in 1..n |-> SubQueryNames[i]] : n \in 0..MaxSub} \cup {<<Query>>}

\* the JSON objects the planning call can answer with; a key may be missing
\* and sub_queries may be no list.  An object that asks for a decomposition
\* carries any of the lists, none, or null; the objects that do not are one
\* without the two keys, and those that say false and list a sub-query, the
\* query itself, or null all the same
PlanDicts ==
    {("needs_decomposition" :> TRUE) @@ sq @@ ("reasoning" :> "r") :
        sq \in {EmptyDict} \cup {"sub_queries" :> l : l \in SubQueryLists \cup {NotAList}}}
    \cup
    {"reasoning" :> "r"}
    \cup
    {("needs_decomposition" :> FALSE) @@ ("sub_queries" :> l)
         @@ ("reasoning" :> "r") : l \in {<<"s1">>, <<Query>>, NotAList}}

\* what the chat completion of _plan_query can do: raise, return text that
\* json.loads rejects, return JSON that is not an object, or return one of
\* the JSON objects
PlanResponses ==
    {[kind |-> "raise", json |-> EmptyDict],
     [kind |-> "badjson", json |-> EmptyDict],
     [kind |-> "value", json |-> NotADict]}
    \cup {[kind |-> "json", json |-> p] : p \in PlanDicts}

\* _plan_query: the parsed object, or the fallback of the except branch
PlanFallback ==
    ("needs_decomposition" :> FALSE) @@ ("reasoning" :> "Planning failed")
        @@ ("sub_queries" :> <<>>)

PlanQueryResult(resp) ==
    IF resp.kind \in {"json", "value"} THEN resp.json ELSE PlanFallback

\* the follow-up query of an assessment
RefinementQuery == "rq"

\* line 65, model.encode: the text each query string is nearest to.  The
\* encoder is a fixed function of the string; the model takes one, under
\* which every text is the nearest of some query.  The strings are the
\* question, the sub-queries, and the refinement queries an assessment can
\* carry, the empty one included.
QueryNames ==
    {Query, RefinementQuery, ""} \cup {SubQueryNames[i] : i \in 1..Len(SubQueryNames)}

Embeddings ==
    {(Query :> "t1") @@ (RefinementQuery :> "t5") @@ ("" :> "t2")
        @@ ("s1" :> "t1") @@ ("s2" :> "t3") @@ ("s3" :> "t5") @@ ("s4" :> "t2")
        @@ ("s5" :> "t4") @@ ("s6" :> "t2")}

\* the JSON objects the reflection call can answer with: the objects that
\* carry every key, and the objects that miss one of the two keys the loop
\* reads
AssessmentDicts ==
    {("is_complete" :> ic) @@ ("needs_refinement" :> nr)
        @@ ("refinement_query" :> rq) @@ ("confidence" :> "high") :
        ic \in BOOLEAN, nr \in BOOLEAN, rq \in {"", RefinementQuery}}
    \cup
    {("is_complete" :> FALSE) @@ ("refinement_query" :> RefinementQuery)
        @@ ("confidence" :> "high"),
     ("is_complete" :> FALSE) @@ ("needs_refinement" :> TRUE)
        @@ ("confidence" :> "high")}

\* what the chat completion of _check_completeness can do: raise, return
\* text that json.loads rejects, return JSON that is not an object, or
\* return one of the JSON objects
AssessResponses ==
    {[kind |-> "raise", json |-> EmptyDict],
     [kind |-> "badjson", json |-> EmptyDict],
     [kind |-> "value", json |-> NotADict]}
    \cup {[kind |-> "json", json |-> a] : a \in AssessmentDicts}

\* _check_completeness: the parsed object, or the fallback of the except branch
AssessFallback ==
    ("is_complete" :> TRUE) @@ ("confidence" :> "medium")
        @@ ("missing_aspects" :> <<>>) @@ ("needs_refinement" :> FALSE)
        @@ ("refinement_query" :> "")

CheckCompletenessResult(resp) ==
    IF resp.kind \in {"json", "value"} THEN resp.json ELSE AssessFallback

\* what the chat completion of _generate_answer can do: return text, return
\* a message whose content is None, or raise
GenResponses == {"text", "none", "raise"}

\* _generate_answer: the text of the completion, or the error string
ErrorAnswer == "Error generating answer"

\* lines 184-196: message.content as it is, or the error string
GenerateAnswerResult(resp) ==
    CASE resp = "text" -> "answer"
      [] resp = "none" -> None
      [] OTHER -> ErrorAnswer

(* ------------------------------ the state ------------------------------ *)

VARIABLES
    documents,          \* vector_store.documents, the stored chunks
    ntotal,             \* vector_store.index.ntotal, the vectors in the index
                        \* (0 while the index is not made)
    embedding,          \* the text each query string is nearest to
    k,                  \* the k argument of query()
    max_iterations,     \* self.max_iterations
    pc,                 \* where query() is
    plan,               \* the plan dict
    queries_to_search,  \* the queries of the primary retrieval
    search_idx,         \* the position of the primary search loop
    all_retrieved_docs, \* the running context
    all_sources,        \* the source set
    seen_texts,         \* the texts met so far
    iterations_used,    \* the iteration records
    answer,             \* the current answer
    iteration,          \* the loop variable of the refinement loop
    assessment,         \* the assessment dict of the current pass
    refinement_query,   \* the follow-up query of the current pass
    result,             \* the dict query() returns
    calls,              \* history: the calls made to the collaborators, in order
    all_complete,       \* history: every assessment so far said is_complete
    run                 \* the locals of each of two calls of query() made on
                        \* one AgenticRAG instance at once (PairSpec)

vars == <<documents, ntotal, embedding, k, max_iterations, pc, plan, queries_to_search, search_idx,
          all_retrieved_docs, all_sources, seen_texts, iterations_used, answer,
          iteration, assessment, refinement_query, result, calls, all_complete,
          run>>

inputs == <<embedding, k, max_iterations>>

\* one entry of the call history: the function, the query and fan-out of a
\* search, the iteration and contexts of a synthesis, the response kind, and
\* the passages a search returned; a reflection call also has the answer it
\* was given and what the assessment it returned says of a refinement
Call(fn, q, kk, it, resp, docs) ==
    [fn |-> fn, query |-> q, k |-> kk, iteration |-> it, resp |-> resp, docs |-> docs,
     answer |-> None, needs_refinement |-> FALSE, refinement_query |-> ""]

Init ==
    /\ documents \in Corpora
    /\ ntotal = Len(documents)
    /\ embedding \in Embeddings
    /\ k \in 0..MaxK
    /\ max_iterations \in 0..MaxIter
    /\ pc = "plan"
    /\ plan = EmptyDict
    /\ queries_to_search = <<>>
    /\ search_idx = 1
    /\ all_retrieved_docs = <<>>
    /\ all_sources = {}
    /\ seen_texts = {}
    /\ iterations_used = <<>>
    /\ answer = None
    /\ iteration = 0
    /\ assessment = EmptyDict
    /\ refinement_query = None
    /\ result = EmptyDict
    /\ calls = <<>>
    /\ all_complete = TRUE
    /\ run = <<>>

(* ---------------------------- pure steps ------------------------------- *)

\* a choice that searches the sub-queries whenever the plan has some
QueriesToSearchAnySubs(p) ==
    IF Get(p, "sub_queries", <<>>) # <<>>
    THEN Get(p, "sub_queries", <<>>)
    ELSE <<Query>>

\* a choice that searches the query when a decomposing plan lists nothing
QueriesToSearchOrQuery(p) ==
    IF Get(p, "needs_decomposition", FALSE) /\ Get(p, "sub_queries", <<>>) # <<>>
    THEN Get(p, "sub_queries", <<>>)
    ELSE <<Query>>

\* lines 223: the sub-queries of a decomposing plan, else the query itself
QueriesToSearch(p) ==
    IF Get(p, "needs_decomposition", FALSE)
    THEN Get(p, "sub_queries", <<>>)
    ELSE <<Query>>

\* lines 233-238: the first document of each text, in order
RECURSIVE UniqueDocs(_, _)
UniqueDocs(docs, seen) ==
    IF docs = <<>> THEN <<>>
    ELSE IF Head(docs).text \in seen
         THEN UniqueDocs(Tail(docs), seen)
         ELSE <<Head(docs)>> \o UniqueDocs(Tail(docs), seen \cup {Head(docs).text})

Texts(docs) == {docs[i].text : i \in 1..Len(docs)}
Sources(docs) == {docs[i].source : i \in 1..Len(docs)}

\* line 240: the cut of the deduplicated documents, one document late
LimitDocsLate(unique_docs, kk) == Take(unique_docs, kk * 2 + 1)

\* line 240: unique_docs[:k*2]
LimitDocs(unique_docs, kk) == Take(unique_docs, kk * 2)

\* a synthesis input that is not cut
ContextDocsAll(docs, kk) == docs

\* lines 283-284: all_retrieved_docs[:k*2], the documents given to the synthesis
ContextDocs(docs, kk) == Take(docs, kk * 2)

\* a test of a new document against the running context, not the seen texts
NewDocsOutsideContext(seen, additional) ==
    UniqueDocs(additional, Texts(all_retrieved_docs))

\* lines 276-278: the documents of a refinement search whose text is new
NewDocs(seen, additional) == UniqueDocs(additional, seen)

\* a merge that appends every document of the refinement search
MergeDocsAll(ctx, seen, additional) == ctx \o additional

\* lines 276-279: the running context after the merge of a refinement search
MergeDocs(ctx, seen, additional) == ctx \o NewDocs(seen, additional)

\* line 260: assessment.get('needs_refinement', False)
NeedsRefinement(a) == Get(a, "needs_refinement", FALSE)

\* a test that takes every refinement query for a usable one
NoRefinementQueryNever(rq) == FALSE

\* line 266: not refinement_query
NoRefinementQuery(rq) == rq = ""

\* a record numbered from one
IterationRecordFromOne(it, n, rq, ans) ==
    [iteration |-> it + 1, docs_retrieved |-> n, refinement_query |-> rq,
     answer |-> ans]

\* lines 247-251 and 287-292: an iteration record
IterationRecord(it, n, rq, ans) ==
    [iteration |-> it, docs_retrieved |-> n, refinement_query |-> rq, answer |-> ans]

\* lines 294-301: the returned dict
QueryResult(ans, srcs, docs, its, p) ==
    [answer |-> ans, sources |-> srcs, retrieved_docs |-> docs,
     iterations |-> its, plan |-> p, total_docs_used |-> Len(docs)]

\* a loop that runs one pass more
InRangeInclusive(it) == it <= max_iterations

\* a loop with no ceiling
InRangeUnbounded(it) == TRUE

\* line 254: the loop runs the pass `it` while it is in range(1, max_iterations)
InRange(it) == it < max_iterations

(* ------------------------------ the steps ------------------------------ *)

\* lines 294-301: query() returns
Return(ans, docs, srcs, its) ==
    /\ pc' = "done"
    /\ result' = QueryResult(ans, srcs, docs, its, plan)

\* the steps are cut where query() waits for a collaborator: a step is the
\* answer of the call query() waits in and the lines query() runs from there
\* to its next call, its return or its exception.  At pc = "plan" query()
\* waits in line 217, at "search" in line 228, at "generate" in line 246,
\* at "reflect" in line 258, at "refine" in line 273, at "regen" in line 286.

\* lines 217-225: the planning call is answered, and the queries to search
\* are chosen.  plan.get raises on a plan that is no dict (line 223), and
\* the for statement raises on queries that cannot be iterated (line 225);
\* query() raises with them.  With no query to search, lines 233-245 find
\* nothing to deduplicate and query() goes on to the synthesis call
PlanQuery ==
    /\ pc = "plan"
    /\ \E resp \in PlanResponses :
        LET p == PlanQueryResult(resp)
        IN  /\ plan' = p
            /\ calls' = Append(calls, Call("plan", Query, 0, 0, resp.kind, <<>>))
            /\ IF ~IsDict(p)
               THEN pc' = "fatal" /\ UNCHANGED queries_to_search
               ELSE /\ queries_to_search' = QueriesToSearch(p)
                    /\ pc' = IF ~IsList(QueriesToSearch(p)) THEN "fatal"
                             ELSE IF QueriesToSearch(p) = <<>> THEN "generate"
                             ELSE "search"
    /\ UNCHANGED <<inputs, documents, ntotal, run, all_complete, search_idx, all_retrieved_docs, all_sources, seen_texts,
                   iterations_used, answer, iteration, assessment,
                   refinement_query, result>>

\* lines 228-230: a search of the primary search loop is answered.  After
\* the last one, lines 233-245: deduplication and the cut to 2k, and query()
\* goes on to the synthesis call
PrimarySearch ==
    /\ pc = "search"
    /\ LET docs == SearchResults(documents, ntotal, embedding[queries_to_search[search_idx]], k)
           unique_docs == UniqueDocs(all_retrieved_docs \o docs, {})
       IN
        /\ all_sources' = all_sources \cup Sources(docs)
        /\ calls' = Append(calls,
               Call("search", queries_to_search[search_idx], k, 0, "ok", docs))
        /\ IF search_idx < Len(queries_to_search)
           THEN /\ all_retrieved_docs' = all_retrieved_docs \o docs
                /\ UNCHANGED <<seen_texts, pc>>
           ELSE /\ seen_texts' = Texts(unique_docs)
                /\ all_retrieved_docs' = LimitDocs(unique_docs, k)
                /\ pc' = "generate"
    /\ search_idx' = search_idx + 1
    /\ UNCHANGED <<inputs, documents, ntotal, run, all_complete, plan, queries_to_search, iterations_used,
                   answer, iteration, assessment, refinement_query, result>>

\* line 228: the search raises (the encoder or the index fails; an empty
\* index returns before either is used), and query() raises with it
PrimarySearchFault ==
    /\ pc = "search"
    /\ ntotal > 0
    /\ calls' = Append(calls,
           Call("search", queries_to_search[search_idx], k, 0, "raise", <<>>))
    /\ pc' = "fatal"
    /\ UNCHANGED <<inputs, documents, ntotal, run, all_complete, plan, queries_to_search, search_idx, all_retrieved_docs,
                   all_sources, seen_texts, iterations_used, answer, iteration,
                   assessment, refinement_query, result>>

\* lines 246-254: the first synthesis is answered, and its record is made;
\* the loop is entered if range(1, max_iterations) is not empty
GenerateInitial ==
    /\ pc = "generate"
    /\ \E resp \in GenResponses :
        LET docs == all_retrieved_docs
            ans  == GenerateAnswerResult(resp)
            its  == <<IterationRecord(0, Len(docs), None, ans)>>
        IN  /\ answer' = ans
            /\ iterations_used' = its
            /\ calls' = Append(calls, Call("generate", Query, k, 0, resp, docs))
            /\ iteration' = 1
            /\ IF InRange(1)
               THEN pc' = "reflect" /\ UNCHANGED result
               ELSE Return(ans, docs, all_sources, its)
    /\ UNCHANGED <<inputs, documents, ntotal, run, all_complete, plan, queries_to_search, search_idx, all_sources,
                   all_retrieved_docs, seen_texts, assessment, refinement_query>>

\* lines 258-267: the reflection call and the two ways out of the loop;
\* assessment.get raises on an assessment that is no dict (line 260), and
\* query() raises with it (a pass is entered with its number below MaxIter,
\* as it is for every max_iterations of Init)
CheckCompleteness ==
    /\ pc = "reflect"
    /\ iteration < MaxIter
    /\ \E resp \in AssessResponses :
        LET a  == CheckCompletenessResult(resp)
            rq == Get(a, "refinement_query", "")
        IN  /\ assessment' = a
            /\ calls' = Append(calls,
                   [Call("reflect", Query, k, iteration, resp.kind, all_retrieved_docs)
                        EXCEPT !.answer = answer,
                               !.needs_refinement = IsDict(a) /\ NeedsRefinement(a),
                               !.refinement_query = rq])
            /\ all_complete' = (all_complete /\ Get(a, "is_complete", FALSE))
            /\ IF ~IsDict(a)
               THEN pc' = "fatal" /\ UNCHANGED <<refinement_query, result>>
               ELSE IF ~NeedsRefinement(a)
               THEN /\ Return(answer, all_retrieved_docs, all_sources, iterations_used)
                    /\ UNCHANGED refinement_query
               ELSE /\ refinement_query' = rq
                    /\ IF NoRefinementQuery(rq)
                       THEN Return(answer, all_retrieved_docs, all_sources,
                                   iterations_used)
                       ELSE pc' = "refine" /\ UNCHANGED result
    /\ UNCHANGED <<inputs, documents, ntotal, run, plan, queries_to_search, search_idx, all_retrieved_docs,
                   all_sources, seen_texts, iterations_used, answer, iteration>>

\* lines 273-280: the refinement search and the merge of its new documents
RefinementSearch ==
    /\ pc = "refine"
    /\ LET docs == SearchResults(documents, ntotal, embedding[refinement_query], k \div 2) IN
        LET new == NewDocs(seen_texts, docs)
        IN  /\ all_retrieved_docs' = MergeDocs(all_retrieved_docs, seen_texts, docs)
            /\ seen_texts' = seen_texts \cup Texts(new)
            /\ all_sources' = all_sources \cup Sources(new)
            /\ calls' = Append(calls,
                   Call("search", refinement_query, k \div 2, iteration, "ok", docs))
    /\ pc' = "regen"
    /\ UNCHANGED <<inputs, documents, ntotal, run, all_complete, plan, queries_to_search, search_idx, iterations_used,
                   answer, iteration, assessment, refinement_query, result>>

\* line 273: the refinement search raises, and query() raises with it
RefinementSearchFault ==
    /\ pc = "refine"
    /\ ntotal > 0
    /\ calls' = Append(calls,
           Call("search", refinement_query, k \div 2, iteration, "raise", <<>>))
    /\ pc' = "fatal"
    /\ UNCHANGED <<inputs, documents, ntotal, run, all_complete, plan, queries_to_search, search_idx, all_retrieved_docs,
                   all_sources, seen_texts, iterations_used, answer, iteration,
                   assessment, refinement_query, result>>

\* lines 283-292 and 254: the answer over the first 2k documents, its record,
\* and the next pass of the loop if there is one
Regenerate ==
    /\ pc = "regen"
    /\ \E resp \in GenResponses :
        LET docs == ContextDocs(all_retrieved_docs, k)
            ans  == GenerateAnswerResult(resp)
            its  == Append(iterations_used,
                        IterationRecord(iteration, Len(all_retrieved_docs),
                                        refinement_query, ans))
        IN  /\ answer' = ans
            /\ iterations_used' = its
            /\ calls' = Append(calls, Call("generate", Query, k, iteration, resp, docs))
            /\ iteration' = iteration + 1
            /\ IF InRange(iteration + 1)
               THEN pc' = "reflect" /\ UNCHANGED result
               ELSE Return(ans, all_retrieved_docs, all_sources, its)
    /\ UNCHANGED <<inputs, documents, ntotal, run, all_complete, plan, queries_to_search, search_idx, all_retrieved_docs,
                   all_sources, seen_texts, assessment, refinement_query>>

\* vector_store.py lines 22-45: add_documents is called on the store while
\* query() runs, at any point of it, and stores the chunks of its list; the
\* index does not hold their vectors yet.  One call of add_documents is made
\* at a time.
AddDocuments ==
    /\ pc \notin {"done", "fatal"}
    /\ ntotal = Len(documents)
    /\ \E batch \in Batches :
          /\ Len(documents) + Len(batch) <= MaxChunks
          /\ documents' = AddedDocuments(documents, batch)
    /\ UNCHANGED <<inputs, ntotal, run, all_complete, pc, plan, queries_to_search, search_idx,
                   all_retrieved_docs, all_sources, seen_texts, iterations_used,
                   answer, iteration, assessment, refinement_query, result, calls>>

\* vector_store.py line 47: the call of add_documents goes on to index.add,
\* and the index holds a vector for every stored chunk
IndexAdd ==
    /\ pc \notin {"done", "fatal"}
    /\ ntotal < Len(documents)
    /\ ntotal' = Len(documents)
    /\ UNCHANGED <<inputs, documents, run, all_complete, pc, plan, queries_to_search, search_idx,
                   all_retrieved_docs, all_sources, seen_texts, iterations_used,
                   answer, iteration, assessment, refinement_query, result, calls>>

Next ==
    \/ AddDocuments
    \/ IndexAdd
    \/ PlanQuery
    \/ PrimarySearch
    \/ PrimarySearchFault
    \/ GenerateInitial
    \/ CheckCompleteness
    \/ RefinementSearch
    \/ RefinementSearchFault
    \/ Regenerate

Spec == Init /\ [][Next]_vars

\* every call query() makes to a collaborator returns, with a value or a
\* fault: a step that can be taken is taken.  The loop count does not
\* depend on the fan-out or on the store, which are taken at one value.
FairInit == Init /\ k = MaxK /\ documents = CorpusDup

FairSpec == FairInit /\ [][Next]_vars /\ WF_vars(Next)

(* -------------------- two calls of query() at once --------------------- *)

\* lines 198-212: query() keeps what it works on in locals, so two calls made
\* on one AgenticRAG instance have one set of locals each; the instance
\* (documents, max_iterations) is theirs in common.  A call is a record of
\* its arguments, its locals, the calls it made and the lines it printed.
\* The two calls are given the same query and k; call 2 is verbose.
Runs == {1, 2}

\* what a collaborator answers a call with: ok/raise and passages for a
\* search, json/badjson/raise and an object for the planning and reflection
\* calls, text/raise for a synthesis
Resp(kind, json, docs) == [kind |-> kind, json |-> json, docs |-> docs]

\* one call made to a collaborator: the function, its arguments (the query,
\* the fan-out, the iteration, the documents given) and the response
PairCall(fn, q, kk, it, given, r) ==
    [fn |-> fn, query |-> q, k |-> kk, iteration |-> it, given |-> given, resp |-> r]

\* lines 215-221, 226-227, 255-256, 261-262, 269-270: if verbose: print(...)
Line(text, q, n) == [line |-> text, query |-> q, n |-> n]
Printed(v, lines) == IF v THEN lines ELSE <<>>

\* lines 198-217: the locals of query(query, k, verbose) when it waits in
\* the planning call; a verbose call has printed its first line
StartQuery(kk, v) ==
    [k |-> kk, verbose |-> v, pc |-> "plan", plan |-> EmptyDict,
     queries_to_search |-> <<>>, search_idx |-> 1, all_retrieved_docs |-> <<>>,
     all_sources |-> {}, seen_texts |-> {}, iterations_used |-> <<>>,
     answer |-> None, iteration |-> 0, assessment |-> EmptyDict,
     refinement_query |-> None, result |-> EmptyDict, calls |-> <<>>,
     printed |-> Printed(v, <<Line("Planning query...", "", 0)>>)]

\* lines 294-301: the call returns
Returns(st) ==
    [st EXCEPT !.pc = "done",
               !.result = QueryResult(st.answer, st.all_sources,
                                      st.all_retrieved_docs, st.iterations_used,
                                      st.plan)]

\* lines 233-245: deduplication and the cut to 2k, up to the synthesis call
Deduplicated(st) ==
    LET unique_docs == UniqueDocs(st.all_retrieved_docs, {})
    IN  [st EXCEPT !.seen_texts = Texts(unique_docs),
                   !.all_retrieved_docs = LimitDocs(unique_docs, st.k),
                   !.pc = "generate"]

\* lines 217-227: the planning call is answered, and the queries to search
\* are chosen.  A plan that is no dict ends the call at its first plan.get
\* (line 219 if verbose, else 223); sub-queries that are no list end it at
\* len() (line 220) if verbose, else at the for statement (line 225).  The
\* line of the first search is printed before the search is called; with
\* no query to search the call goes on to the synthesis call
PlanStep(st, r) ==
    LET p    == PlanQueryResult(r)
        next == [st EXCEPT
                    !.plan = p,
                    !.calls = Append(@, PairCall("plan", Query, 0, 0, <<>>, r))]
    IN  IF ~IsDict(p)
        THEN [next EXCEPT !.pc = "fatal"]
        ELSE IF ~IsList(QueriesToSearch(p))
        THEN IF st.verbose
             THEN [next EXCEPT !.pc = "fatal"]
             ELSE [next EXCEPT !.pc = "fatal", !.queries_to_search = QueriesToSearch(p)]
        ELSE LET chosen ==
                   [next EXCEPT
                      !.queries_to_search = QueriesToSearch(p),
                      !.printed = @ \o Printed(st.verbose /\ Get(p, "needs_decomposition", FALSE),
                                          <<Line("Query decomposed into",  "",
                                                 Len(Get(p, "sub_queries", <<>>)))>>)]
             IN  IF QueriesToSearch(p) = <<>>
                 THEN Deduplicated(chosen)
                 ELSE [chosen EXCEPT
                          !.pc = "search",
                          !.printed = @ \o Printed(st.verbose,
                                              <<Line("Searching:", QueriesToSearch(p)[1], 0)>>)]

\* lines 228-230 and 225-227: a search of the primary search loop is
\* answered, and the line of the next search is printed before it is
\* called; after the last search the call goes on to the synthesis call.
\* A search that raises ends the call
SearchStep(st, r) ==
    LET q    == st.queries_to_search[st.search_idx]
        c    == PairCall("search", q, st.k, 0, <<>>, r)
        next == [st EXCEPT
                    !.all_retrieved_docs = @ \o r.docs,
                    !.all_sources = @ \cup Sources(r.docs),
                    !.search_idx = @ + 1,
                    !.calls = Append(@, c)]
    IN  IF r.kind = "raise"
        THEN [st EXCEPT !.pc = "fatal", !.calls = Append(@, c)]
        ELSE IF st.search_idx < Len(st.queries_to_search)
        THEN [next EXCEPT
                 !.printed = @ \o Printed(st.verbose,
                                     <<Line("Searching:",
                                            st.queries_to_search[st.search_idx + 1], 0)>>)]
        ELSE Deduplicated(next)

\* lines 255-256: a pass of the loop is entered, and its line is printed
\* before the reflection call
EntersPass(st) ==
    [st EXCEPT !.pc = "reflect",
               !.printed = @ \o Printed(st.verbose,
                                   <<Line("Reflecting on answer", "", st.iteration)>>)]

\* lines 246-256: the first synthesis is answered, and its record is made;
\* the loop is entered if range(1, max_iterations) is not empty
GenerateStep(st, r) ==
    LET docs == st.all_retrieved_docs
        ans  == GenerateAnswerResult(r.kind)
        next == [st EXCEPT
                    !.answer = ans,
                    !.iterations_used =
                        <<IterationRecord(0, Len(docs), None, ans)>>,
                    !.calls = Append(@, PairCall("generate", Query, st.k, 0,
                                                 docs, r)),
                    !.iteration = 1]
    IN  IF InRange(1) THEN EntersPass(next) ELSE Returns(next)

\* the break of line 263 taken for part of the print above it
AnswerCompleteWhenVerbose(v, a) ==
    [leave   |-> ~NeedsRefinement(a) /\ v,
     printed |-> Printed(v /\ ~NeedsRefinement(a),
                    <<Line("Answer is complete", Get(a, "confidence", "unknown"), 0)>>)]

\* lines 260-263: an assessment that asks for no refinement ends the loop,
\* and a line is printed if verbose
AnswerComplete(v, a) ==
    [leave   |-> ~NeedsRefinement(a),
     printed |-> Printed(v /\ ~NeedsRefinement(a),
                    <<Line("Answer is complete", Get(a, "confidence", "unknown"), 0)>>)]

\* lines 258-270: the reflection call is answered; the two ways out of the
\* loop, and the line of the refinement search printed before it is called.
\* An assessment that is no dict ends the call at assessment.get (line 260)
ReflectStep(st, r) ==
    LET a    == CheckCompletenessResult(r)
        exit == AnswerComplete(st.verbose, a)
        rq   == Get(a, "refinement_query", "")
        next == [st EXCEPT
                    !.assessment = a,
                    !.calls = Append(@, PairCall("reflect", Query, st.k,
                                                 st.iteration,
                                                 st.all_retrieved_docs, r))]
    IN  IF ~IsDict(a)
        THEN [next EXCEPT !.pc = "fatal"]
        ELSE IF exit.leave
        THEN Returns([next EXCEPT !.printed = @ \o exit.printed])
        ELSE IF NoRefinementQuery(rq)
             THEN Returns([next EXCEPT !.refinement_query = rq,
                                       !.printed = @ \o exit.printed])
             ELSE [next EXCEPT
                      !.refinement_query = rq,
                      !.pc = "refine",
                      !.printed = @ \o exit.printed
                                    \o Printed(st.verbose,
                                          <<Line("Refining search:", rq, 0)>>)]

\* lines 273-284: the refinement search is answered, and its new documents
\* are merged; a search that raises ends the call
RefineStep(st, r) ==
    LET c   == PairCall("search", st.refinement_query, st.k \div 2, st.iteration,
                        <<>>, r)
        new == NewDocs(st.seen_texts, r.docs)
    IN  IF r.kind = "raise"
        THEN [st EXCEPT !.pc = "fatal", !.calls = Append(@, c)]
        ELSE [st EXCEPT
                !.all_retrieved_docs = MergeDocs(@, st.seen_texts, r.docs),
                !.seen_texts = @ \cup Texts(new),
                !.all_sources = @ \cup Sources(new),
                !.pc = "regen",
                !.calls = Append(@, c)]

\* lines 286-292 and 254-256: the synthesis over the first 2k documents is
\* answered, its record is made, and the next pass of the loop is entered
\* if there is one
RegenerateStep(st, r) ==
    LET docs == ContextDocs(st.all_retrieved_docs, st.k)
        ans  == GenerateAnswerResult(r.kind)
        next == [st EXCEPT
                    !.answer = ans,
                    !.iterations_used =
                        Append(@, IterationRecord(st.iteration,
                                                  Len(st.all_retrieved_docs),
                                                  st.refinement_query, ans)),
                    !.calls = Append(@, PairCall("generate", Query, st.k,
                                                 st.iteration, docs, r)),
                    !.iteration = @ + 1]
    IN  IF InRange(st.iteration + 1) THEN EntersPass(next) ELSE Returns(next)

\* query() from the answer of one collaborator call to the next call
QueryStep(st, r) ==
    CASE st.pc = "plan" -> PlanStep(st, r)
      [] st.pc = "search" -> SearchStep(st, r)
      [] st.pc = "generate" -> GenerateStep(st, r)
      [] st.pc = "reflect" -> ReflectStep(st, r)
      [] st.pc = "refine" -> RefineStep(st, r)
      [] st.pc = "regen" -> RegenerateStep(st, r)
      [] OTHER -> st

\* what the planning call answers a call of the pair with: it raises, or it
\* decomposes the query in two
PairPlanResponses ==
    {Resp("raise", EmptyDict, <<>>),
     Resp("value", NotADict, <<>>),
     Resp("json", ("needs_decomposition" :> TRUE) @@ ("reasoning" :> "r")
                      @@ ("sub_queries" :> NotAList), <<>>),
     Resp("json", ("needs_decomposition" :> TRUE) @@ ("reasoning" :> "r")
                      @@ ("sub_queries" :> <<"s1", "s2">>), <<>>)}

\* what a search answers: one of the results of VectorStore.search, or a fault
\* (an empty index returns before anything can fail)
PairSearchResponses(q, kk) ==
    {Resp("ok", EmptyDict, SearchResults(documents, ntotal, embedding[q], kk))}
    \cup (IF ntotal > 0 THEN {Resp("raise", EmptyDict, <<>>)} ELSE {})

\* what a synthesis answers
PairGenResponses == {Resp(g, EmptyDict, <<>>) : g \in GenResponses}

\* what the reflection call answers: it raises, it asks for nothing more
\* (and names a query all the same), or it asks for a refinement
PairAssessResponses ==
    {Resp("raise", EmptyDict, <<>>), Resp("value", NotADict, <<>>)}
    \cup {Resp("json", ("is_complete" :> ~nr) @@ ("needs_refinement" :> nr)
                           @@ ("refinement_query" :> RefinementQuery)
                           @@ ("confidence" :> "high"), <<>>) : nr \in BOOLEAN}

\* lines 210-212: what a step of call i assigns is a local of call i
LocalsSharedSeen(rs, i, st) ==
    [j \in DOMAIN rs |->
        IF j = i THEN st ELSE [rs[j] EXCEPT !.seen_texts = st.seen_texts]]

Locals(rs, i, st) == [rs EXCEPT ![i] = st]

\* the locals of the single call of Spec
single == <<k, pc, plan, queries_to_search, search_idx, all_retrieved_docs,
            all_sources, seen_texts, iterations_used, answer, iteration,
            assessment, refinement_query, result, calls, all_complete>>

PairInit ==
    /\ documents \in {CorpusDup}
    /\ ntotal = Len(documents)
    /\ embedding \in Embeddings
    /\ max_iterations \in 1..(MaxIter - 1)
    /\ \E kk \in {MaxK} : run = [i \in Runs |-> StartQuery(kk, i = 2)]
    /\ k = 0
    /\ pc = "plan"
    /\ plan = EmptyDict
    /\ queries_to_search = <<>>
    /\ search_idx = 1
    /\ all_retrieved_docs = <<>>
    /\ all_sources = {}
    /\ seen_texts = {}
    /\ iterations_used = <<>>
    /\ answer = None
    /\ iteration = 0
    /\ assessment = EmptyDict
    /\ refinement_query = None
    /\ result = EmptyDict
    /\ calls = <<>>
    /\ all_complete = TRUE

\* line 217: call i is answered by the planning call
CallPlanner(i) ==
    /\ run[i].pc = "plan"
    /\ \E r \in PairPlanResponses : run' = Locals(run, i, QueryStep(run[i], r))
    /\ UNCHANGED <<documents, ntotal, embedding, max_iterations, single>>

\* lines 228 and 273: call i is answered by a search
CallRetriever(i) ==
    /\ run[i].pc \in {"search", "refine"}
    /\ \E r \in IF run[i].pc = "refine"
               THEN PairSearchResponses(run[i].refinement_query, run[i].k \div 2)
               ELSE PairSearchResponses(
                        run[i].queries_to_search[run[i].search_idx], run[i].k) :
          run' = Locals(run, i, QueryStep(run[i], r))
    /\ UNCHANGED <<documents, ntotal, embedding, max_iterations, single>>

\* lines 246 and 286: call i is answered by a synthesis
CallGenerator(i) ==
    /\ run[i].pc \in {"generate", "regen"}
    /\ \E r \in PairGenResponses : run' = Locals(run, i, QueryStep(run[i], r))
    /\ UNCHANGED <<documents, ntotal, embedding, max_iterations, single>>

\* line 258: call i is answered by the reflection call
CallReflector(i) ==
    /\ run[i].pc = "reflect"
    /\ \E r \in PairAssessResponses : run' = Locals(run, i, QueryStep(run[i], r))
    /\ UNCHANGED <<documents, ntotal, embedding, max_iterations, single>>

\* vector_store.py lines 22-45: add_documents is called on the store while
\* one of the two calls runs, and stores the chunks of its list
PairAddDocuments ==
    /\ \E i \in Runs : run[i].pc \notin {"done", "fatal"}
    /\ ntotal = Len(documents)
    /\ \E batch \in Batches :
          /\ Len(documents) + Len(batch) <= MaxChunks
          /\ documents' = AddedDocuments(documents, batch)
    /\ UNCHANGED <<ntotal, embedding, max_iterations, single, run>>

\* vector_store.py line 47: the call of add_documents goes on to index.add
PairIndexAdd ==
    /\ \E i \in Runs : run[i].pc \notin {"done", "fatal"}
    /\ ntotal < Len(documents)
    /\ ntotal' = Len(documents)
    /\ UNCHANGED <<documents, embedding, max_iterations, single, run>>

PairNext ==
    \/ PairAddDocuments
    \/ PairIndexAdd
    \/ \E i \in Runs :
        \/ CallPlanner(i)
        \/ CallRetriever(i)
        \/ CallGenerator(i)
        \/ CallReflector(i)

PairSpec == PairInit /\ [][PairNext]_vars

(* ============================ the claims =============================== *)

\* the six keys of the returned dict
ResultKeys ==
    {"answer", "sources", "retrieved_docs", "iterations", "plan", "total_docs_used"}

\* query() has returned
Returned == pc = "done"

\* the calls of the history that satisfy a test, in order
SelectCalls(cs, Test(_)) == SelectSeq(cs, Test)

IsSearch(c) == c.fn = "search"
IsPrimarySearch(c) == c.fn = "search" /\ c.iteration = 0
IsRefinementSearch(c) == c.fn = "search" /\ c.iteration >= 1
IsGenerate(c) == c.fn = "generate"
IsReflect(c) == c.fn = "reflect"

\* every passage the searches of the history returned, in the order returned
RECURSIVE Passages(_)
Passages(cs) ==
    IF cs = <<>> THEN <<>> ELSE Head(cs).docs \o Passages(Tail(cs))

AllPassages == Passages(SelectCalls(calls, IsSearch))

\* the place of the first passage of a text among the returned passages
FirstIndex(ps, t) == CHOOSE i \in 1..Len(ps) :
    /\ ps[i].text = t
    /\ \A j \in 1..(i - 1) : ps[j].text # t

\* the primary aggregation is over: record 0 exists
Aggregated == Len(iterations_used) >= 1

\* C1: when query() has returned and max_iterations >= 1, the iterations of
\* the result are at most max_iterations records and the first record has
\* iteration number 0.
C1_BoundedIteration ==
    (Returned /\ max_iterations >= 1) =>
        /\ Len(result.iterations) >= 1
        /\ Len(result.iterations) <= max_iterations
        /\ result.iterations[1].iteration = 0

\* C1 witness: a query that used its whole budget of three iterations
C1_Witness ==
    /\ Returned
    /\ max_iterations = 3
    /\ Len(result.iterations) = 3

\* C2 (as claimed): after the primary aggregation and after every refinement
\* merge the running context has at most 2k entries, and the result has
\* len(retrieved_docs) = total_docs_used <= 2k.
C2_RunningContextCapped ==
    /\ Aggregated => Len(all_retrieved_docs) <= 2 * k
    /\ Returned =>
        /\ Len(result.retrieved_docs) = result.total_docs_used
        /\ result.total_docs_used <= 2 * k

\* C3: while no refinement search has merged anything, the context left by
\* the primary aggregation has at most 2k entries, and record 0 always counts
\* at most 2k documents.
C3_PrimaryCap ==
    Aggregated =>
        /\ iterations_used[1].docs_retrieved <= 2 * k
        /\ (SelectCalls(calls, IsRefinementSearch) = <<>>) =>
              /\ Len(all_retrieved_docs) <= 2 * k
              /\ iterations_used[1].docs_retrieved = Len(all_retrieved_docs)

\* C3 witness: the primary searches returned more than 2k distinct texts and
\* the context was cut to exactly 2k
C3_Witness ==
    /\ Aggregated
    /\ k >= 1
    /\ SelectCalls(calls, IsRefinementSearch) = <<>>
    /\ Cardinality(seen_texts) > 2 * k
    /\ Len(all_retrieved_docs) = 2 * k

\* C4: after the primary aggregation no two entries of the running context
\* have the same text, every entry is the first passage of its text among all
\* the passages the searches returned, and the entries stand in the order of
\* those first occurrences.
C4_DedupFirstOccurrence ==
    Aggregated =>
        LET ps    == AllPassages
            ctx   == all_retrieved_docs
            first == [i \in 1..Len(ctx) |-> FirstIndex(ps, ctx[i].text)]
        IN  /\ \A i, j \in 1..Len(ctx) : i < j => ctx[i].text # ctx[j].text
            /\ \A i \in 1..Len(ctx) : ctx[i].text \in Texts(ps)
            /\ \A i \in 1..Len(ctx) : ctx[i] = ps[first[i]]
            /\ \A i \in 1..(Len(ctx) - 1) : first[i] < first[i + 1]

\* C4 witness: the primary searches returned a text twice, one refinement
\* search brought a new text and another one a text already seen
C4_Witness ==
    /\ Returned
    /\ Len(Passages(SelectCalls(calls, IsPrimarySearch)))
          > Cardinality(Texts(Passages(SelectCalls(calls, IsPrimarySearch))))
    /\ \E i, j \in 1..Len(calls) :
          /\ IsRefinementSearch(calls[i]) /\ IsRefinementSearch(calls[j])
          /\ calls[i].docs # <<>> /\ calls[j].docs # <<>>
          /\ i < j
          /\ Len(all_retrieved_docs) = iterations_used[1].docs_retrieved + 1

\* C5 (as claimed): the sources of a result are exactly the source ids of
\* the passages of its retrieved_docs.
C5_SourcesOfMergedPassages ==
    Returned => result.sources = Sources(result.retrieved_docs)

\* the response of the model to a planning or reflection call failed: the
\* call raised, or its text did not parse
Failed(c) == c.resp \in {"raise", "badjson"}

LastCall == calls[Len(calls)]

\* C6 (as claimed): a refinement search that raises does not abort query():
\* the call is never left with a fatal error after such a fault.
C6_RefinementFaultRecovered ==
    \A i \in 1..Len(calls) :
        (IsRefinementSearch(calls[i]) /\ calls[i].resp = "raise") => pc # "fatal"

\* C7 (as claimed): a call that is over has either returned a dict with all six keys set
\* (a bound answer, at least one iteration record, the plan, and the count of
\* its documents) or raised without a result; before that there is no result
\* and the call can go on; and after a primary search that raised the call
\* has raised, no synthesis call was made and there is no result.
C7_CompleteResultOrFatal ==
    /\ Returned =>
        /\ DOMAIN result = ResultKeys
        /\ result.answer # None
        /\ result.iterations # <<>>
        /\ result.plan = plan /\ DOMAIN plan # {}
        /\ result.total_docs_used = Len(result.retrieved_docs)
    /\ ~Returned => DOMAIN result = {}
    /\ pc \notin {"done", "fatal"} => ENABLED Next
    /\ \A i \in 1..Len(calls) :
        (IsPrimarySearch(calls[i]) /\ calls[i].resp = "raise") =>
            /\ pc = "fatal"
            /\ i = Len(calls)
            /\ SelectCalls(calls, IsGenerate) = <<>>
            /\ DOMAIN result = {}

\* C7 witness: the second primary search raised after the first one had
\* returned passages
C7_Witness ==
    /\ pc = "fatal"
    /\ all_retrieved_docs # <<>>
    /\ IsPrimarySearch(LastCall) /\ LastCall.resp = "raise"

\* the planning call gave no plan: it raised, its text was no JSON, or the
\* JSON was not of the shape of a plan (no object, sub_queries no list)
NoPlanParsed ==
    \/ Failed(calls[1])
    \/ calls[1].resp = "value"
    \/ ~IsList(Get(plan, "sub_queries", <<>>))

\* C8 (as claimed): when the planning call failed or its output did not
\* parse into a plan, the plan has needs_decomposition false and no
\* sub-queries, the call goes on to the primary retrieval, and that
\* retrieval is one search of the original query with fan-out k.
C8_PlannerFallback ==
    (Len(calls) >= 1 /\ NoPlanParsed) =>
        /\ IsDict(plan)
        /\ plan["needs_decomposition"] = FALSE
        /\ plan["sub_queries"] = <<>>
        /\ queries_to_search = <<Query>>
        /\ Len(calls) = 1 => pc = "search"
        /\ Len(SelectCalls(calls, IsPrimarySearch)) <= 1
        /\ \A i \in 1..Len(calls) :
              IsPrimarySearch(calls[i]) => calls[i].query = Query /\ calls[i].k = k
        /\ Aggregated => Len(SelectCalls(calls, IsPrimarySearch)) = 1

\* C8 witness: a query that returned after its planning call gave text that
\* does not parse
C8_Witness ==
    /\ Returned
    /\ calls[1].resp = "badjson"
    /\ result.total_docs_used >= 1

\* C9 (as claimed): when a reflection call failed or its output did not
\* parse into an assessment, the assessment is the fallback (complete, no
\* refinement), that call is the last call of the query, the query has
\* returned, the pass appended no record, and the returned answer is the
\* answer of the last record.
C9_ReflectorFallback ==
    \A i \in 1..Len(calls) :
        (IsReflect(calls[i]) /\ (Failed(calls[i]) \/ calls[i].resp = "value")) =>
            /\ IsDict(assessment)
            /\ assessment["is_complete"] = TRUE
            /\ assessment["needs_refinement"] = FALSE
            /\ i = Len(calls)
            /\ Returned
            /\ Len(iterations_used) = calls[i].iteration
            /\ result.iterations = iterations_used
            /\ result.answer = iterations_used[Len(iterations_used)].answer

\* C9 witness: the reflection call of the second pass raised, after a first
\* pass that refined the answer
C9_Witness ==
    /\ Returned
    /\ IsReflect(LastCall) /\ LastCall.resp = "raise"
    /\ LastCall.iteration = 2
    /\ result.answer = ErrorAnswer

\* C10: when the assessment of a pass is a dict with an empty or absent refinement_query,
\* the query returns on that pass: the reflection call is its last call, and
\* the pass issued no search and appended no record.
C10_EmptyRefinementQueryEnds ==
    (DOMAIN assessment # {} /\ IsDict(assessment)
        /\ Get(assessment, "refinement_query", "") = "") =>
        /\ Returned
        /\ IsReflect(LastCall)
        /\ Len(iterations_used) = LastCall.iteration
        /\ Len(SelectCalls(calls, IsGenerate)) = LastCall.iteration
        /\ Len(SelectCalls(calls, IsRefinementSearch)) = LastCall.iteration - 1

\* C10 witness: the second pass asked for a refinement without a query
C10_Witness ==
    /\ Returned
    /\ DOMAIN assessment # {}
    /\ NeedsRefinement(assessment)
    /\ "refinement_query" \notin DOMAIN assessment
    /\ iteration = 2

\* the synthesis and reflection calls of the history, in order
GenerateCalls == SelectCalls(calls, IsGenerate)
ReflectCalls == SelectCalls(calls, IsReflect)

\* a call that raised, or a completion that did not parse
IsFault(c) == c.resp \in {"raise", "badjson"}

\* the assessment a reflection call returned asks for a refinement and names
\* its query
AsksRefinement(c) == c.needs_refinement /\ c.refinement_query # ""

\* the records are numbered 0, 1, ..., n - 1
Numbered(its) == \A i \in 1..Len(its) : its[i].iteration = i - 1

\* C11: when query() has returned, max_iterations >= 1, no call to a
\* collaborator failed and every assessment asked for a refinement with a
\* non-empty query, the result has exactly max_iterations records, numbered
\* 0, 1, ..., max_iterations - 1.
C11_StopsAtBudget ==
    (/\ Returned
     /\ max_iterations >= 1
     /\ \A i \in 1..Len(calls) : ~IsFault(calls[i])
     /\ \A i \in 1..Len(calls) : IsReflect(calls[i]) => AsksRefinement(calls[i]))
    => /\ Len(result.iterations) = max_iterations
       /\ Numbered(result.iterations)

\* C11 witness: three records after two assessments that both asked for a
\* refinement, the last of them at the end of the budget
C11_Witness ==
    /\ Returned
    /\ max_iterations = 3
    /\ \A i \in 1..Len(calls) : ~IsFault(calls[i])
    /\ Len(ReflectCalls) = 2
    /\ \A i \in 1..Len(calls) : IsReflect(calls[i]) => AsksRefinement(calls[i])
    /\ Len(result.iterations) = 3

\* the number of distinct texts the primary searches returned
PrimaryTexts == Texts(Passages(SelectCalls(calls, IsPrimarySearch)))

\* C12 (as claimed): when the plan does not decompose and every assessment
\* said is_complete, a returned result has exactly one record and
\* total_docs_used is the number of distinct texts of the primary retrieval.
C12_CompleteMeansOneRecord ==
    (/\ Returned
     /\ ~Get(plan, "needs_decomposition", FALSE)
     /\ all_complete)
    => /\ Len(result.iterations) = 1
       /\ result.total_docs_used = Cardinality(PrimaryTexts)

\* C12 (amended): when the plan does not decompose and every assessment said
\* is_complete without asking for a refinement with a non-empty query, a
\* returned result has exactly one record (iteration 0) and total_docs_used
\* is the number of distinct texts of the primary retrieval.
C12_CompleteWithoutRefinement ==
    (/\ Returned
     /\ ~Get(plan, "needs_decomposition", FALSE)
     /\ all_complete
     /\ \A i \in 1..Len(calls) : IsReflect(calls[i]) => ~AsksRefinement(calls[i]))
    => /\ Len(result.iterations) = 1
       /\ result.iterations[1].iteration = 0
       /\ result.total_docs_used = Cardinality(PrimaryTexts)

\* C12 witness: one assessment that said is_complete and asked for nothing,
\* with budget left and two passages of distinct texts retrieved
C12_Witness ==
    /\ Returned
    /\ max_iterations = 3
    /\ ~Get(plan, "needs_decomposition", FALSE)
    /\ Len(ReflectCalls) = 1
    /\ ReflectCalls[1].resp = "json"
    /\ all_complete
    /\ ~NeedsRefinement(assessment)
    /\ result.total_docs_used = 2

\* C13 (as claimed): a synthesis call whose completion raised left the error string as the
\* answer of the record of its iteration, and did not end the query with a
\* fatal error; a returned result has an answer, the answer of its last record.
C13_GenerationFailureAbsorbed ==
    /\ LET gen == GenerateCalls
       IN  \A j \in 1..Len(gen) :
              gen[j].resp = "raise" =>
                  /\ Len(iterations_used) >= j
                  /\ iterations_used[j].iteration = gen[j].iteration
                  /\ iterations_used[j].answer = ErrorAnswer
    /\ (Len(calls) >= 1 /\ IsGenerate(LastCall) /\ LastCall.resp = "raise") =>
          /\ pc \in {"reflect", "done"}
          /\ answer = ErrorAnswer
    /\ Returned =>
          /\ result.answer # None
          /\ result.answer = result.iterations[Len(result.iterations)].answer

\* C13 witness: the first synthesis succeeded and the synthesis of a
\* refinement pass raised
C13_Witness ==
    /\ Returned
    /\ Len(GenerateCalls) = 2
    /\ GenerateCalls[1].resp = "text"
    /\ GenerateCalls[2].resp = "raise"
    /\ result.answer = ErrorAnswer

\* a call of the pair without what verbose is allowed to change: the flag
\* and the lines printed
Quiet(st) == [st EXCEPT !.verbose = FALSE, !.printed = <<>>]

\* the two calls of the pair were given the same responses to their first n
\* collaborator calls
SameResponses(n) == \A i \in 1..n : run[1].calls[i].resp = run[2].calls[i].resp

\* the i-th collaborator calls of the two calls are the same call
SameCall(i) ==
    LET c == run[1].calls[i]
        d == run[2].calls[i]
    IN  /\ c.fn = d.fn
        /\ c.query = d.query
        /\ c.k = d.k
        /\ c.iteration = d.iteration
        /\ c.given = d.given

\* C14: two calls of query() with the same query and k, one verbose and one
\* not, whose collaborator calls were answered alike so far, made the same
\* calls with the same arguments so far; after equally many calls they are
\* at the same place, with the same locals unless they have raised (the
\* locals are gone then), and once returned their results are equal.
C14_VerboseChangesNoDecision ==
    LET n == Min(Len(run[1].calls), Len(run[2].calls))
    IN  (run[1].verbose # run[2].verbose /\ run[1].k = run[2].k /\ SameResponses(n)) =>
            /\ \A i \in 1..n : SameCall(i)
            /\ Len(run[1].calls) = Len(run[2].calls) =>
                  /\ run[1].pc = run[2].pc
                  /\ run[1].pc # "fatal" => Quiet(run[1]) = Quiet(run[2])
                  /\ run[1].result = run[2].result

\* C14 witness: the two calls have returned after one refinement pass each,
\* answered alike, the first an assessment that asked for a refinement; only
\* the verbose one printed
C14_Witness ==
    /\ run[1].pc = "done" /\ run[2].pc = "done"
    /\ ~run[1].verbose /\ run[2].verbose
    /\ Len(run[1].calls) = Len(run[2].calls)
    /\ SameResponses(Len(run[1].calls))
    /\ Len(run[1].result.iterations) = 2
    /\ run[1].result = run[2].result
    /\ run[1].printed = <<>>
    /\ Len(run[2].printed) >= 4

\* C15: with max_iterations = 1 no reflection call and no refinement search
\* is ever made and a returned result has exactly one record; for every
\* max_iterations >= 1 at most max_iterations - 1 reflection calls are made.
C15_ReflectionWithinBudget ==
    /\ max_iterations = 1 =>
          /\ ReflectCalls = <<>>
          /\ SelectCalls(calls, IsRefinementSearch) = <<>>
          /\ Len(GenerateCalls) <= 1
          /\ Returned => Len(result.iterations) = 1
    /\ max_iterations >= 1 => Len(ReflectCalls) <= max_iterations - 1

\* C15 witness: a query with max_iterations = 1 that returned an answer over
\* retrieved passages
C15_Witness ==
    /\ Returned
    /\ max_iterations = 1
    /\ result.total_docs_used >= 1
    /\ calls[1].resp = "json"

\* C16 as stated: every call of query() eventually reaches DONE.
C16_ReachesDone == <>(pc = "done")

\* the collaborator call a fatal error comes from: a search that raised, a
\* planning call that gave no dict or sub-queries that are no list, or a
\* reflection call that gave no dict
FatalCall(c) ==
    \/ IsSearch(c) /\ IsFault(c)
    \/ c.fn = "plan" /\ (~IsDict(plan) \/ ~IsList(QueriesToSearch(plan)))
    \/ IsReflect(c) /\ ~IsDict(assessment)

\* C16: every call of query() eventually ends, whatever the assessments ask
\* for: it reaches DONE, or it ends with the fatal error of a search that
\* raised or of a planning or reflection call whose JSON is not of the
\* shape query() reads.
C16_EndsDoneOrFatal ==
    <>(\/ pc = "done"
       \/ /\ pc = "fatal"
          /\ FatalCall(LastCall))

\* C16 witness: a call that returned at the ceiling of the longest loop,
\* every assessment having asked for a refinement with a query
C16_Witness ==
    /\ Returned
    /\ max_iterations = MaxIter
    /\ Len(result.iterations) = max_iterations
    /\ Len(ReflectCalls) = max_iterations - 1
    /\ \A i \in 1..Len(ReflectCalls) : AsksRefinement(ReflectCalls[i])


\* the strings a plan lists under sub_queries (none when it is no list)
ListedSubQueries(p) ==
    IF IsList(Get(p, "sub_queries", <<>>))
    THEN {Get(p, "sub_queries", <<>>)[n] :
              n \in 1..Len(Get(p, "sub_queries", <<>>))}
    ELSE {}

\* a plan, once made, that is a dict whose needs_decomposition is false or
\* absent
NoDecomposition ==
    pc # "plan" /\ IsDict(plan) /\ ~Get(plan, "needs_decomposition", FALSE)

\* C17 (as claimed): once the plan is made, a dict whose needs_decomposition
\* is false or absent, the queries to search are the original query alone,
\* every primary search is for that query with fan-out k, there is at most
\* one of them and exactly one once the first answer is generated, and no
\* string the plan lists under sub_queries is searched.
C17_NoSubQuerySearched ==
    NoDecomposition =>
        /\ queries_to_search = <<Query>>
        /\ Len(SelectCalls(calls, IsPrimarySearch)) <= 1
        /\ \A i \in 1..Len(calls) :
              IsPrimarySearch(calls[i]) =>
                  /\ calls[i].query = Query
                  /\ calls[i].k = k
                  /\ calls[i].query \notin ListedSubQueries(plan)
        /\ Aggregated => Len(SelectCalls(calls, IsPrimarySearch)) = 1

\* C17 (amended): once the plan is made, a dict whose needs_decomposition is
\* false or absent, the queries to search are the original query alone,
\* every primary search is for that query with fan-out k, there is at most
\* one of them and exactly one once the first answer is generated, and no
\* string the plan lists under sub_queries is searched unless it is the
\* original query string.
C17_NoDecompositionSearchesQuery ==
    NoDecomposition =>
        /\ queries_to_search = <<Query>>
        /\ Len(SelectCalls(calls, IsPrimarySearch)) <= 1
        /\ \A i \in 1..Len(calls) :
              IsPrimarySearch(calls[i]) =>
                  /\ calls[i].query = Query
                  /\ calls[i].k = k
                  /\ calls[i].query \notin ListedSubQueries(plan) \ {Query}
        /\ Aggregated => Len(SelectCalls(calls, IsPrimarySearch)) = 1

\* C17 witness: a plan that says needs_decomposition = false and yet lists
\* a sub-query other than the query, after the one search returned passages
\* and the first answer was generated
C17_Witness ==
    /\ Aggregated
    /\ "needs_decomposition" \in DOMAIN plan
    /\ ~plan["needs_decomposition"]
    /\ ListedSubQueries(plan) \ {Query} # {}
    /\ Len(SelectCalls(calls, IsPrimarySearch)) = 1
    /\ Len(all_retrieved_docs) >= 1

\* the call a call of the pair would be had it run alone and been given the
\* responses its collaborator calls were given
RECURSIVE Replay(_, _)
Replay(st, cs) ==
    IF cs = <<>> THEN st ELSE Replay(QueryStep(st, Head(cs).resp), Tail(cs))

Alone(st) == Replay(StartQuery(st.k, st.verbose), st.calls)

\* the passages the searches of a call of the pair returned
RECURSIVE Found(_)
Found(cs) ==
    IF cs = <<>> THEN <<>>
    ELSE (IF Head(cs).fn = "search" THEN Head(cs).resp.docs ELSE <<>>)
             \o Found(Tail(cs))

OwnPassages(st) == Found(st.calls)

\* C18: whatever the interleaving of two calls of query() on one instance,
\* each call is where it would be had it run alone with the same responses
\* (its result included), and its running context, seen texts and sources
\* come from the passages its own searches returned, its iteration records
\* from its own synthesis calls.
C18_CallsShareNoLocals ==
    \A i \in Runs :
        LET st == run[i]
            ps == OwnPassages(st)
        IN  /\ st = Alone(st)
            /\ Texts(st.all_retrieved_docs) \subseteq Texts(ps)
            /\ st.seen_texts \subseteq Texts(ps)
            /\ st.all_sources \subseteq Sources(ps)
            /\ Len(st.iterations_used) =
                  Cardinality({n \in 1..Len(st.calls) : st.calls[n].fn = "generate"})
            /\ \A n \in 1..Len(st.iterations_used) :
                  st.iterations_used[n].answer \in
                      {GenerateAnswerResult(st.calls[m].resp.kind) :
                          m \in {x \in 1..Len(st.calls) : st.calls[x].fn = "generate"}}

\* C18 witness: both calls are in flight, one before its refinement search
\* and one after it, and the second has merged a passage whose text the
\* first has not met
C18_Witness ==
    /\ run[1].pc = "refine"
    /\ run[2].pc = "regen"
    /\ Len(run[2].all_retrieved_docs) > run[2].iterations_used[1].docs_retrieved
    /\ run[2].seen_texts \ run[1].seen_texts # {}

\* C19: every synthesis call was given at most 2k documents, the first 2k of
\* the running context of its time, in order; documents merged beyond place
\* 2k are in retrieved_docs and their sources in sources, but in no synthesis
\* input; and a synthesis call made when the previous one already had 2k or
\* more documents in the context was given the same list.
C19_SynthesisInputIsFirst2k ==
    /\ LET gen == GenerateCalls
       IN  \A j \in 1..Len(gen) :
          /\ Len(iterations_used) >= j
          /\ Len(gen[j].docs) <= 2 * k
          /\ gen[j].docs =
                Take(Take(all_retrieved_docs, iterations_used[j].docs_retrieved), 2 * k)
          /\ (j >= 2 /\ iterations_used[j - 1].docs_retrieved >= 2 * k) =>
                gen[j].docs = gen[j - 1].docs
          /\ \A i \in (2 * k + 1)..Len(all_retrieved_docs) :
                all_retrieved_docs[i].text \notin Texts(gen[j].docs)
    /\ Returned =>
          /\ result.retrieved_docs = all_retrieved_docs
          /\ Sources(all_retrieved_docs) \subseteq result.sources

\* C19 witness: the context grew beyond 2k and two refinement passes
\* regenerated the answer
C19_Witness ==
    /\ Returned
    /\ k >= 1
    /\ Len(result.retrieved_docs) > 2 * k
    /\ Len(GenerateCalls) = 3
    /\ iterations_used[2].docs_retrieved > 2 * k

\* the place in the history of the synthesis call of an iteration
GeneratePlace(it) ==
    CHOOSE p \in 1..Len(calls) : IsGenerate(calls[p]) /\ calls[p].iteration = it

\* C20: the i-th record has iteration number i - 1; there is one record per
\* synthesis call, with the answer of that call, at all later times; the
\* synthesis of a refinement pass follows the search of the refinement query
\* with fan-out k // 2, which follows the reflection call of the pass, made
\* over the answer of the latest record and the whole running context; the
\* documents a pass adds come from its search; and the record appended last
\* counts the documents of the running context.
C20_RecordsAppendOnlyInOrder ==
    /\ Numbered(iterations_used)
    /\ LET gen == GenerateCalls
       IN  /\ Len(iterations_used) = Len(gen)
           /\ \A j \in 1..Len(gen) :
                 /\ gen[j].iteration = j - 1
                 /\ iterations_used[j].answer = GenerateAnswerResult(gen[j].resp)
    /\ \A it \in 1..(Len(iterations_used) - 1) :
          LET p    == GeneratePlace(it)
              prev == iterations_used[it]
              rec  == iterations_used[it + 1]
          IN  /\ p >= 3
              /\ IsRefinementSearch(calls[p - 1])
              /\ calls[p - 1].resp = "ok"
              /\ calls[p - 1].iteration = it
              /\ calls[p - 1].k = k \div 2
              /\ calls[p - 1].query = rec.refinement_query
              /\ IsReflect(calls[p - 2])
              /\ calls[p - 2].iteration = it
              /\ calls[p - 2].answer = prev.answer
              /\ calls[p - 2].docs = Take(all_retrieved_docs, prev.docs_retrieved)
              /\ calls[p - 2].refinement_query = rec.refinement_query
              /\ rec.docs_retrieved >= prev.docs_retrieved
              /\ \A i \in (prev.docs_retrieved + 1)..rec.docs_retrieved :
                    \E n \in 1..Len(calls[p - 1].docs) :
                        calls[p - 1].docs[n] = all_retrieved_docs[i]
    /\ (Len(calls) >= 1 /\ IsGenerate(LastCall)) =>
          iterations_used[Len(iterations_used)].docs_retrieved = Len(all_retrieved_docs)

\* C20 witness: three records, the second pass having added a document
C20_Witness ==
    /\ Returned
    /\ Len(iterations_used) = 3
    /\ iterations_used[3].docs_retrieved > iterations_used[2].docs_retrieved
    /\ iterations_used[2].docs_retrieved > iterations_used[1].docs_retrieved

\* the queries of a list
Range(xs) == {xs[i] : i \in 1..Len(xs)}

\* C21 as stated: under a plan with needs_decomposition = true the primary
\* searches are for sub-queries of the plan and none is for the original
\* query string.
C21_NeverTheOriginalQuery ==
    (pc # "plan" /\ Get(plan, "needs_decomposition", FALSE)) =>
        \A i \in 1..Len(calls) :
            IsPrimarySearch(calls[i]) =>
                /\ calls[i].query \in Range(Get(plan, "sub_queries", <<>>))
                /\ calls[i].query # Query

\* C21: under a plan with needs_decomposition = true the primary searches
\* are for the sub-queries of the plan, one each and in their order, and for
\* the original query string only where the plan lists it as a sub-query;
\* with no sub-query, no search is made before the first answer and record 0
\* counts no document, whatever the index holds.
C21_DecompositionSearchesSubQueries ==
    (pc # "plan" /\ Get(plan, "needs_decomposition", FALSE)) =>
        LET subs == Get(plan, "sub_queries", <<>>)
            ps   == SelectCalls(calls, IsPrimarySearch)
        IN  /\ queries_to_search = subs
            /\ Len(ps) <= Len(subs)
            /\ \A i \in 1..Len(ps) : ps[i].query = subs[i] /\ ps[i].k = k
            /\ Query \notin Range(subs) =>
                  \A i \in 1..Len(ps) : ps[i].query # Query
            /\ Aggregated =>
                  /\ Len(ps) = Len(subs)
                  /\ subs = <<>> =>
                        /\ iterations_used[1].docs_retrieved = 0
                        /\ \A i \in 1..Len(calls) :
                              IsSearch(calls[i]) =>
                                  \E j \in 1..(i - 1) : IsGenerate(calls[j])

\* C21 witness: a plan that asks for a decomposition and lists no sub-query,
\* over an index that holds passages and with k >= 1: the first answer is
\* generated from no document, and a refinement search came after it
C21_Witness ==
    /\ Get(plan, "needs_decomposition", FALSE)
    /\ Get(plan, "sub_queries", <<>>) = <<>>
    /\ Len(documents) > 0
    /\ k >= 2
    /\ Len(iterations_used) >= 2
    /\ iterations_used[1].docs_retrieved = 0
    /\ SelectCalls(calls, IsPrimarySearch) = <<>>
    /\ SelectCalls(calls, IsRefinementSearch) # <<>>

\* the texts the primary retrieval met and the cut to 2k left out
CutTexts ==
    LET unique_docs == UniqueDocs(Passages(SelectCalls(calls, IsPrimarySearch)), {})
    IN  Texts(unique_docs) \ Texts(Take(unique_docs, 2 * k))

\* C22: once the first answer is generated, a text the primary retrieval met
\* and the cut to 2k left out is in the seen texts and in no entry of the
\* running context, nor of retrieved_docs once query() has returned; and a
\* refinement search that returns only passages with such texts leaves the
\* running context and the sources as they were.
C22_CutTextsStaySeen ==
    /\ [](Aggregated =>
            \A t \in CutTexts :
                /\ t \in seen_texts
                /\ t \notin Texts(all_retrieved_docs)
                /\ Returned => t \notin Texts(result.retrieved_docs))
    /\ [][(pc = "refine" /\ pc' = "regen"
              /\ Texts(calls'[Len(calls')].docs) \subseteq CutTexts) =>
                /\ all_retrieved_docs' = all_retrieved_docs
                /\ all_sources' = all_sources
                /\ seen_texts' = seen_texts]_vars

\* C22 witness: a refinement search has just returned a passage whose text
\* the primary retrieval met and the cut left out
C22_Witness ==
    /\ pc = "regen"
    /\ IsRefinementSearch(LastCall)
    /\ LastCall.docs # <<>>
    /\ Texts(LastCall.docs) \subseteq CutTexts
    /\ Len(all_retrieved_docs) = 2 * k

====
